---- MODULE Spec2Model ----
(***************************************************************************)
(* Model of client/src/producer.rs: the multi-topic producer facade, the   *)
(* ProducerEngine future that owns the topic maps, the tasks it spawns     *)
(* (creation attempts, chained continuations, send dispatches) and the     *)
(* reference-counted Producer sessions with their sequence counters.       *)
(*                                                                         *)
(* The engine and every spawned task run on a multi-threaded executor, so  *)
(* each step below is one access to shared state (a channel, the inbound   *)
(* queue, a sequence counter); steps of different tasks interleave freely. *)
(***************************************************************************)
EXTENDS Integers, Sequences, FiniteSets, TLC

\* Number of facade send calls the callers make in one run.
MaxMsgs == 2
\* Number of direct send_raw calls made on the stand-alone session.
MaxRaw == 2

\* The topics callers address; BTreeMap iterates them in increasing order.
Topics == {1, 2}
Msgs == 1..MaxMsgs
\* A session is identified by the creation attempt that instantiated it; a
\* run may start with one session already registered.
Sessions == 1..(MaxMsgs + 1)

VARIABLES
    \* ---- facade / callers
    topic,          \* topic[m]: topic of ProducerMessage m (0: send not yet called)
    st,             \* st[m]: where message m is on its way through the engine
    result,         \* result[m]: what was delivered on m's resolver
    seen,           \* seen[m]: the sends to m's topic whose result the caller
                    \*   had already received when it called send for m
    inbound,        \* the unbounded inbound queue (FIFO of message ids)
    closed,         \* every facade handle dropped: the queue is closed
    \* ---- engine
    pc,             \* "idle" | "phase1" | "loop" | "done"
    notified,       \* the engine task has been woken and will be polled
    cur,            \* phase 1: topic whose pending handle is polled next
    resolved_topics,\* phase 1: topics whose handle resolved in this poll
    producers,      \* producers[t]: session registered for t (0: no entry)
    new_producers,  \* new_producers[t]: m when it holds the forwarding
                    \*   receiver made for message m (0: no entry)
    engineReg,      \* forwarding channels whose parked receiver task is the engine
    \* ---- spawned tasks
    attempts,       \* creation attempts in the order they were started:
                    \*   topic, st ("lookup" | "create" | "ok" | "err"),
                    \*   taken (the outcome was read from the attempt's
                    \*   channel), observed (the engine saw it resolved)
    src,            \* src[m]: the pending handle continuation m waits on
    att,            \* att[m]: the creation attempt m is chained onto (0: none)
    ch,             \* ch[m]: forwarding channel written by continuation m
    \* ---- sessions
    message_id,     \* message_id[p]: next value of session p's SerialId
    refs,           \* refs[p]: strong count of Arc<Producer> p
    closes,         \* closes[p]: close_producer RPCs issued for p
    prod,           \* prod[m]: session whose send RPC carried m (0: none)
    seq,            \* seq[m]: sequence id of that RPC (-1: none)
    \* ---- a Producer used directly by the application
    rawIds,         \* sequence ids drawn by send_raw on it, in call order
    \* ---- callers' result channels
    dropped         \* messages whose caller discarded the returned future
                    \*   (and with it the result-channel receiver) unresolved

vars == <<topic, st, result, seen, inbound, closed, pc, notified, cur,
          resolved_topics, producers, new_producers, engineReg, attempts,
          src, att, ch, message_id, refs, closes, prod, seq, rawIds, dropped>>

callerVars == <<topic, seen, closed>>
engineVars == <<pc, notified, cur, resolved_topics, producers, new_producers, engineReg>>
sessionVars == <<message_id, refs, closes>>

NoHandle == [kind |-> "none", id |-> 0]
CreateHandle(a) == [kind |-> "create", id |-> a]
ContHandle(m) == [kind |-> "cont", id |-> m]

Max(S) == CHOOSE x \in S : \A y \in S : y <= x
Min(S) == CHOOSE x \in S : \A y \in S : x <= y

\* The stand-alone Producer the application holds directly (not engine-owned).
Direct == 0

NextMsg == Cardinality({m \in Msgs : topic[m] # 0}) + 1
PendingTopics == {t \in Topics : new_producers[t] # 0}
\* A session that reports the same topic whatever it was created for.
SessionTopicFixed(p) == Min(Topics)
\* Producer::topic(): the topic the session was created for.
SessionTopic(p) == attempts[p].topic

(***************************************************************************)
(* Sessions: the sequence generator, Arc<Producer> and Drop for Producer.  *)
(***************************************************************************)

\* SerialId::get(): return the current value, then increment it (atomic).
SerialIdGet(c) == [id |-> c, next |-> c + 1]

\* A send that reads the counter without advancing it.
send_message_no_advance(ctr, p) == [sequence_id |-> ctr[p], message_id |-> ctr]
\* Producer::send_message: draw the sequence id and hand it to the send RPC.
send_message(ctr, p) ==
    [sequence_id |-> SerialIdGet(ctr[p]).id,
     message_id  |-> [ctr EXCEPT ![p] = SerialIdGet(ctr[p]).next]]

\* A send_raw that restarts the numbering at 0 on every call.
send_raw_restart(ctr, p) == [sequence_id |-> 0, message_id |-> [ctr EXCEPT ![p] = 1]]
\* Producer::send_raw: the same draw, from the same counter.
send_raw(ctr, p) ==
    [sequence_id |-> SerialIdGet(ctr[p]).id,
     message_id  |-> [ctr EXCEPT ![p] = SerialIdGet(ctr[p]).next]]

\* A destructor that forgets the close notification.
DropProducerSilent(cl, p) == cl
\* Drop for Producer: issue close_producer(self.id) and discard its outcome.
DropProducer(cl, p) == [cl EXCEPT ![p] = @ + 1]

\* Dropping one Arc<Producer>: the strong count goes down by one and the
\* Producer itself is dropped when it reaches zero.
ArcDrop(rc, p) ==
    [refs   |-> [rc.refs EXCEPT ![p] = @ - 1],
     closes |-> IF rc.refs[p] = 1 THEN DropProducer(rc.closes, p) ELSE rc.closes]
\* A clone that shares the reference without counting it.
ArcCloneUncounted(rc, p) == rc
\* Arc::clone (line 142): one more owner of the same Producer.
ArcClone(rc, p) == [refs |-> [rc.refs EXCEPT ![p] = @ + 1], closes |-> rc.closes]
RC == [refs |-> refs, closes |-> closes]

(***************************************************************************)
(* Single-use channels.                                                    *)
(***************************************************************************)

\* What polling the pending handle h yields right now.
InValue(h) ==
    IF h.kind = "create"
    THEN (IF attempts[h.id].st \in {"ok", "err"} /\ ~attempts[h.id].taken
          THEN attempts[h.id].st ELSE "empty")
    ELSE ch[h.id]

\* A send whose value never reaches the channel.
TxSendLost(c, m, v) == c
\* oneshot::Sender::send on forwarding channel m: the value is stored when
\* the receiver is still there, and handed back (then dropped) when not.
TxSend(c, m, v) == IF c[m] = "empty" THEN [c EXCEPT ![m] = v] ELSE c
\* The task parked on the receiver is notified; here only the engine matters.
TxNotify(m) == IF m \in engineReg /\ pc # "done" THEN TRUE ELSE notified

\* resolver.send(r) on the caller's result channel (lines 127, 144, 150): the
\* value is delivered unless the caller dropped the receiver; the Err handed
\* back is discarded (map_err(drop), let _ =).
ResolverSend(res, m, v) == IF m \in dropped THEN res ELSE [res EXCEPT ![m] = v]

Init ==
    /\ topic = [m \in Msgs |-> 0]
    /\ st = [m \in Msgs |-> "new"]
    /\ result = [m \in Msgs |-> "none"]
    /\ seen = [m \in Msgs |-> {}]
    /\ inbound = << >>
    /\ closed = FALSE
    /\ pc = "idle"
    /\ notified = TRUE
    /\ cur = 0
    /\ resolved_topics = {}
    /\ producers = [t \in Topics |-> 0]
    /\ new_producers = [t \in Topics |-> 0]
    /\ engineReg = {}
    /\ attempts = << >>
    /\ src = [m \in Msgs |-> NoHandle]
    /\ att = [m \in Msgs |-> 0]
    /\ ch = [m \in Msgs |-> "empty"]
    /\ message_id = [p \in Sessions \cup {Direct} |-> 0]
    /\ refs = [p \in Sessions |-> 0]
    /\ closes = [p \in Sessions |-> 0]
    /\ prod = [m \in Msgs |-> 0]
    /\ seq = [m \in Msgs |-> -1]
    /\ rawIds = << >>
    /\ dropped = {}

(***************************************************************************)
(* The facade.                                                             *)
(***************************************************************************)

\* MultiTopicProducer::send with a message that serializes: push the request
\* and return the future bound to its result channel.
Send(t) ==
    /\ ~closed
    /\ pc # "gone"
    /\ NextMsg <= MaxMsgs
    /\ LET m == NextMsg IN
        /\ topic' = [topic EXCEPT ![m] = t]
        /\ st' = [st EXCEPT ![m] = "queued"]
        /\ seen' = [seen EXCEPT ![m] = {k \in Msgs : topic[k] = t /\ result[k] # "none"}]
        /\ inbound' = Append(inbound, m)
    /\ notified' = IF pc = "idle" THEN TRUE ELSE notified
    /\ UNCHANGED <<result, closed, pc, cur, resolved_topics, producers,
                   new_producers, engineReg, attempts, src, att, ch,
                   sessionVars, prod, seq, rawIds, dropped>>

\* A send that pushes the request although serialization failed.
SendUnserializablePushes(t) ==
    /\ ~closed
    /\ NextMsg <= MaxMsgs
    /\ LET m == NextMsg IN
        /\ topic' = [topic EXCEPT ![m] = t]
        /\ st' = [st EXCEPT ![m] = "rejected"]
        /\ result' = [result EXCEPT ![m] = "ser_err"]
        /\ seen' = [seen EXCEPT ![m] = {k \in Msgs : topic[k] = t /\ result[k] # "none"}]
        /\ inbound' = Append(inbound, m)
    /\ notified' = IF pc = "idle" THEN TRUE ELSE notified
    /\ UNCHANGED <<closed, pc, cur, resolved_topics, producers,
                   new_producers, engineReg, attempts, src, att, ch,
                   sessionVars, prod, seq, rawIds, dropped>>
\* MultiTopicProducer::send with a message whose serialization fails (lines 71
\* and 87): the returned future is already failed with the serialization
\* error; no channel is made and nothing is pushed.
SendUnserializable(t) ==
    /\ ~closed
    /\ NextMsg <= MaxMsgs
    /\ LET m == NextMsg IN
        /\ topic' = [topic EXCEPT ![m] = t]
        /\ st' = [st EXCEPT ![m] = "rejected"]
        /\ result' = [result EXCEPT ![m] = "ser_err"]
        /\ seen' = [seen EXCEPT ![m] = {k \in Msgs : topic[k] = t /\ result[k] # "none"}]
    /\ UNCHANGED <<inbound, closed, engineVars, attempts, src, att, ch,
                   sessionVars, prod, seq, rawIds, dropped>>

\* MultiTopicProducer::send when the engine's receiving end is gone (line 84):
\* unbounded_send hands the request back and it is dropped with its resolver.
SendRefused(t) ==
    /\ ~closed
    /\ pc = "gone"
    /\ NextMsg <= MaxMsgs
    /\ LET m == NextMsg IN
        /\ topic' = [topic EXCEPT ![m] = t]
        /\ st' = [st EXCEPT ![m] = "refused"]
        /\ seen' = [seen EXCEPT ![m] = {k \in Msgs : topic[k] = t /\ result[k] # "none"}]
    /\ UNCHANGED <<result, inbound, closed, engineVars, attempts, src, att, ch,
                   sessionVars, prod, seq, rawIds, dropped>>

\* A future that stays pending when its result channel is cancelled.
FutureResultIgnoresCancel(m) ==
    IF st[m] = "refused" THEN "unavailable"
    ELSE IF result[m] \in {"none", "canceled"} THEN "pending"
    ELSE result[m]
\* What the future returned by send yields (lines 79-84): the value delivered
\* on the result channel, or the engine-unavailable error when the push
\* failed or the channel was dropped without a value.
FutureResult(m) ==
    IF st[m] = "refused" THEN "unavailable"
    ELSE IF result[m] = "none" THEN "pending"
    ELSE IF result[m] = "canceled" THEN "unavailable"
    ELSE result[m]

\* The last clone of the facade is dropped: the inbound queue closes.
DropFacade ==
    /\ ~closed
    /\ closed' = TRUE
    /\ notified' = IF pc = "idle" THEN TRUE ELSE notified
    /\ UNCHANGED <<topic, st, result, seen, inbound, pc, cur, resolved_topics,
                   producers, new_producers, engineReg, attempts, src, att, ch,
                   sessionVars, prod, seq, rawIds, dropped>>


(***************************************************************************)
(* ProducerEngine::poll.                                                   *)
(***************************************************************************)

\* The executor polls the woken engine task; poll() begins at line 104.
EnginePoll ==
    /\ pc = "idle"
    /\ notified
    /\ notified' = FALSE
    /\ resolved_topics' = {}
    /\ IF PendingTopics = {}
       THEN pc' = "loop" /\ cur' = 0
       ELSE pc' = "phase1" /\ cur' = Min(PendingTopics)
    /\ UNCHANGED <<topic, st, result, seen, inbound, closed, producers,
                   new_producers, engineReg, attempts, src, att, ch,
                   sessionVars, prod, seq, rawIds, dropped>>

\* Lines 116-118 with the removal left out: resolved handles stay registered.
RemoveResolvedNothing(np, resolved) == np
\* Lines 116-118 removing every handle, resolved or not.
RemoveResolvedAll(np, resolved) == [u \in Topics |-> 0]
\* Lines 116-118: remove every resolved topic from new_producers.
RemoveResolved(np, resolved) ==
    [u \in Topics |-> IF u \in resolved THEN 0 ELSE np[u]]

\* A phase 1 that only moves on once the handle it looks at has resolved.
PendingPollReadyBlocking(v) == v # "empty"
\* Lines 106-107: the engine polls a handle whatever its state (never waits).
PendingPollReady(v) == TRUE

\* Lines 106-115 for the handle of topic cur, then lines 116-118 after the
\* last handle: a non-blocking poll of one pending creation.
AdvancePending ==
    /\ pc = "phase1"
    /\ LET t == cur
           k == new_producers[t]
           v == ch[k]
           p == att[k]
           rest == {u \in PendingTopics : u > t}
           resolved == IF v = "empty" THEN resolved_topics
                       ELSE resolved_topics \cup {t}
       IN
        /\ PendingPollReady(v)
        /\ IF v = "ok"
           THEN \* Ok(Async::Ready(Ok(producer))): insert under producer.topic()
                LET old == producers[SessionTopic(p)]
                    rc == IF old # 0 THEN ArcDrop(RC, old) ELSE RC
                IN /\ producers' = [producers EXCEPT ![SessionTopic(p)] = p]
                   /\ refs' = rc.refs
                   /\ closes' = rc.closes
           ELSE UNCHANGED <<producers, refs, closes>>
        /\ ch' = IF v = "empty" THEN ch ELSE [ch EXCEPT ![k] = "closed"]
        /\ attempts' = IF v = "empty" THEN attempts
                       ELSE [attempts EXCEPT ![p].observed = TRUE]
        /\ engineReg' = IF v = "empty" THEN engineReg \cup {k} ELSE engineReg \ {k}
        /\ IF rest = {}
           THEN /\ new_producers' = RemoveResolved(new_producers, resolved)
                /\ pc' = "loop"
                /\ cur' = 0
                /\ resolved_topics' = {}
           ELSE /\ cur' = Min(rest)
                /\ resolved_topics' = resolved
                /\ UNCHANGED <<new_producers, pc>>
    /\ UNCHANGED <<topic, st, result, seen, inbound, closed, notified, src,
                   att, message_id, prod, seq, rawIds, dropped>>

\* A dispatch that starts a creation attempt before looking at producers.
DispatchReadyRecreate ==
    /\ pc = "loop"
    /\ inbound # << >>
    /\ LET m == Head(inbound)
           p == producers[topic[m]]
           s == send_message(message_id, p)
       IN
        /\ p # 0
        /\ attempts' = Append(attempts,
              [topic |-> topic[m], st |-> "lookup", taken |-> FALSE,
               observed |-> FALSE])
        /\ seq' = [seq EXCEPT ![m] = s.sequence_id]
        /\ message_id' = s.message_id
        /\ prod' = [prod EXCEPT ![m] = p]
        /\ st' = [st EXCEPT ![m] = "sending"]
    /\ inbound' = Tail(inbound)
    /\ UNCHANGED <<topic, result, seen, closed, engineVars, src, att, ch,
                   refs, closes, rawIds, dropped>>

\* A dispatch that leaves the draw of the sequence id to the spawned task.
DispatchReadyDeferred ==
    /\ pc = "loop"
    /\ inbound # << >>
    /\ LET m == Head(inbound)
           p == producers[topic[m]]
       IN
        /\ p # 0
        /\ prod' = [prod EXCEPT ![m] = p]
        /\ st' = [st EXCEPT ![m] = "sending"]
    /\ inbound' = Tail(inbound)
    /\ UNCHANGED <<topic, result, seen, closed, engineVars, attempts, src, att,
                   ch, sessionVars, seq, rawIds, dropped>>
\* Lines 123-128: the topic has a session; send on it and spawn the task that
\* routes the receipt to the resolver.  The sequence id is drawn here.
DispatchReady ==
    /\ pc = "loop"
    /\ inbound # << >>
    /\ LET m == Head(inbound)
           p == producers[topic[m]]
           s == send_message(message_id, p)
       IN
        /\ p # 0
        /\ seq' = [seq EXCEPT ![m] = s.sequence_id]
        /\ message_id' = s.message_id
        /\ prod' = [prod EXCEPT ![m] = p]
        /\ st' = [st EXCEPT ![m] = "sending"]
    /\ inbound' = Tail(inbound)
    /\ UNCHANGED <<topic, result, seen, closed, engineVars, attempts, src, att,
                   ch, refs, closes, rawIds, dropped>>

\* A lookup that never finds the pending entry.
HasPendingNever(t) == FALSE
\* Line 130: new_producers.remove(&topic) finds a pending handle.
HasPending(t) == new_producers[t] # 0

\* Line 155: new_producers.insert(topic, rx).
RegisterPending(np, t, m) == [np EXCEPT ![t] = m]

\* Lines 129-156: no session for the topic.  Take the pending handle, or
\* start a creation attempt when there is none; chain the message on it and
\* register the fresh forwarding receiver.
DispatchPending ==
    /\ pc = "loop"
    /\ inbound # << >>
    /\ LET m == Head(inbound)
           t == topic[m]
           a == Len(attempts) + 1
       IN
        /\ producers[t] = 0
        /\ IF HasPending(t)
           THEN /\ src' = [src EXCEPT ![m] = ContHandle(new_producers[t])]
                /\ att' = [att EXCEPT ![m] = att[new_producers[t]]]
                /\ UNCHANGED attempts
           ELSE /\ attempts' = Append(attempts,
                      [topic |-> t, st |-> "lookup", taken |-> FALSE,
                       observed |-> FALSE])
                /\ src' = [src EXCEPT ![m] = CreateHandle(a)]
                /\ att' = [att EXCEPT ![m] = a]
        /\ st' = [st EXCEPT ![m] = "chained"]
        /\ new_producers' = RegisterPending(new_producers, t, m)
    /\ inbound' = Tail(inbound)
    /\ UNCHANGED <<topic, result, seen, closed, pc, notified, cur,
                   resolved_topics, producers, engineReg, ch, sessionVars,
                   prod, seq, rawIds, dropped>>

\* An engine that returns NotReady without having found the queue empty.
ParkWithoutPolling ==
    /\ pc = "loop"
    /\ ~closed
    /\ pc' = "idle"
    /\ UNCHANGED <<topic, st, result, seen, inbound, closed, notified, cur,
                   resolved_topics, producers, new_producers, engineReg,
                   attempts, src, att, ch, sessionVars, prod, seq, rawIds, dropped>>

\* Line 122, Async::NotReady: the queue is empty and open; the task parks.
ParkOnEmpty ==
    /\ pc = "loop"
    /\ inbound = << >>
    /\ ~closed
    /\ pc' = "idle"
    /\ UNCHANGED <<topic, st, result, seen, inbound, closed, notified, cur,
                   resolved_topics, producers, new_producers, engineReg,
                   attempts, src, att, ch, sessionVars, prod, seq, rawIds, dropped>>

\* Sessions released when the engine's maps are dropped: the map entries and
\* the sessions sitting unread in the forwarding channels it still holds.
EngineHeld(p) ==
    (IF \E t \in Topics : producers[t] = p THEN 1 ELSE 0)
    + Cardinality({t \in Topics : new_producers[t] # 0
                                  /\ ch[new_producers[t]] = "ok"
                                  /\ att[new_producers[t]] = p})

RECURSIVE ArcDropN(_, _, _)
ArcDropN(rc, p, n) == IF n = 0 THEN rc ELSE ArcDropN(ArcDrop(rc, p), p, n - 1)

RECURSIVE DropAll(_, _)
DropAll(rc, ps) ==
    IF ps = {} THEN rc
    ELSE LET p == Min(ps) IN DropAll(ArcDropN(rc, p, EngineHeld(p)), ps \ {p})

\* An engine that completes as soon as the queue is closed, drained or not.
TerminateOnClose ==
    /\ pc = "loop"
    /\ closed
    /\ pc' = "done"
    /\ LET rc == DropAll(RC, Sessions) IN
        /\ refs' = rc.refs
        /\ closes' = rc.closes
    /\ ch' = [m \in Msgs |->
                IF \E t \in Topics : new_producers[t] = m THEN "closed" ELSE ch[m]]
    /\ producers' = [t \in Topics |-> 0]
    /\ new_producers' = [t \in Topics |-> 0]
    /\ engineReg' = {}
    /\ notified' = FALSE
    /\ UNCHANGED <<topic, st, result, seen, inbound, closed, cur,
                   resolved_topics, attempts, src, att, message_id, prod, seq,
                   rawIds, dropped>>

\* Line 159: the queue is closed and drained; the future completes and the
\* executor drops it, and with it both maps.
Terminate ==
    /\ pc = "loop"
    /\ inbound = << >>
    /\ closed
    /\ pc' = "done"
    /\ LET rc == DropAll(RC, Sessions) IN
        /\ refs' = rc.refs
        /\ closes' = rc.closes
    /\ ch' = [m \in Msgs |->
                IF \E t \in Topics : new_producers[t] = m THEN "closed" ELSE ch[m]]
    /\ producers' = [t \in Topics |-> 0]
    /\ new_producers' = [t \in Topics |-> 0]
    /\ engineReg' = {}
    /\ notified' = FALSE
    /\ UNCHANGED <<topic, st, result, seen, inbound, closed, cur,
                   resolved_topics, attempts, src, att, message_id, prod, seq,
                   rawIds, dropped>>

\* The executor that owns the engine (line 59) and the tasks spawned at lines
\* 126, 133 and 140 shuts down between polls: every task is dropped with what
\* it owns -- the queue's receiving end and the requests still in it, the
\* resolvers, the channel ends and the session references.
Shutdown ==
    /\ pc \in {"idle", "done"}
    /\ \A m \in Msgs : st[m] \notin {"forwarded", "failing"}
    /\ pc' = "gone"
    /\ inbound' = << >>
    /\ st' = [m \in Msgs |-> IF st[m] \in {"queued", "chained", "waiting", "sending"}
                              THEN "aborted" ELSE st[m]]
    /\ result' = [m \in Msgs |->
                    IF st[m] \in {"queued", "chained", "waiting", "sending"}
                       /\ m \notin dropped
                    THEN "canceled" ELSE result[m]]
    /\ attempts' = [a \in DOMAIN attempts |->
                      IF attempts[a].st \in {"lookup", "create"}
                      THEN [attempts[a] EXCEPT !.st = "aborted"] ELSE attempts[a]]
    /\ ch' = [m \in Msgs |-> IF st[m] \in {"new", "queued"} THEN ch[m] ELSE "closed"]
    /\ refs' = [p \in Sessions |-> 0]
    /\ closes' = [p \in Sessions |->
                    IF refs[p] > 0 THEN DropProducer(closes, p)[p] ELSE closes[p]]
    /\ producers' = [t \in Topics |-> 0]
    /\ new_producers' = [t \in Topics |-> 0]
    /\ engineReg' = {}
    /\ notified' = FALSE
    /\ UNCHANGED <<topic, seen, closed, cur, resolved_topics, src, att,
                   message_id, prod, seq, rawIds, dropped>>

(***************************************************************************)
(* Spawned tasks.                                                          *)
(***************************************************************************)

\* Producer::from_connection, first step: lookup_topic completes.  On
\* success create_producer is issued; on failure the attempt resolves with
\* the error, which the creation task sends down its channel (line 135).
LookupDone(a, ok) ==
    /\ a \in DOMAIN attempts
    /\ attempts[a].st = "lookup"
    /\ attempts' = [attempts EXCEPT ![a].st = IF ok THEN "create" ELSE "err"]
    /\ UNCHANGED <<topic, st, result, seen, inbound, closed, engineVars, src,
                   att, ch, sessionVars, prod, seq, rawIds, dropped>>

\* Producer::from_connection, second step: create_producer completes.  On
\* success the Producer is instantiated, wrapped in an Arc and sent (line 135).
CreateDone(a, ok) ==
    /\ a \in DOMAIN attempts
    /\ attempts[a].st = "create"
    /\ attempts' = [attempts EXCEPT ![a].st = IF ok THEN "ok" ELSE "err"]
    /\ refs' = IF ok THEN [refs EXCEPT ![a] = 1] ELSE refs
    /\ UNCHANGED <<topic, st, result, seen, inbound, closed, engineVars, src,
                   att, ch, message_id, closes, prod, seq, rawIds, dropped>>

\* The value is moved out of the pending handle h by the task that polled it.
AttemptsAfterTake(h) ==
    IF h.kind = "create" THEN [attempts EXCEPT ![h.id].taken = TRUE] ELSE attempts
ChAfterTake(h) ==
    IF h.kind = "cont" THEN [ch EXCEPT ![h.id] = "closed"] ELSE ch

\* Line 140, first poll of a continuation whose pending handle is unresolved:
\* the continuation parks on the handle (replacing whoever was parked there).
ContPark(m) ==
    /\ st[m] = "chained"
    /\ InValue(src[m]) = "empty"
    /\ st' = [st EXCEPT ![m] = "waiting"]
    /\ engineReg' = IF src[m].kind = "cont" THEN engineReg \ {src[m].id} ELSE engineReg
    /\ UNCHANGED <<topic, result, seen, inbound, closed, pc, notified, cur,
                   resolved_topics, producers, new_producers, attempts, src,
                   att, ch, sessionVars, prod, seq, rawIds, dropped>>

\* Lines 141-142: the pending handle resolved with a session; publish a
\* clone of it on the forwarding channel.
ContForwardOk(m) ==
    /\ st[m] \in {"chained", "waiting"}
    /\ InValue(src[m]) = "ok"
    /\ LET h == src[m]
           p == att[m]
           c == ChAfterTake(h)
           delivered == c[m] = "empty"
           rc == IF delivered THEN ArcClone(RC, p) ELSE RC
       IN
        /\ attempts' = AttemptsAfterTake(h)
        /\ ch' = TxSend(c, m, "ok")
        /\ refs' = rc.refs
        /\ closes' = rc.closes
        /\ notified' = IF delivered THEN TxNotify(m) ELSE notified
        /\ engineReg' = IF h.kind = "cont" THEN engineReg \ {h.id} ELSE engineReg
    /\ st' = [st EXCEPT ![m] = "forwarded"]
    /\ UNCHANGED <<topic, result, seen, inbound, closed, pc, cur,
                   resolved_topics, producers, new_producers, src, att,
                   message_id, prod, seq, rawIds, dropped>>

\* Lines 143-146: send the caller's message on the new session; the
\* continuation's own reference to the session is released afterwards.
ContSend(m) ==
    /\ st[m] = "forwarded"
    /\ LET p == att[m]
           s == send_message(message_id, p)
           rc == ArcDrop(RC, p)
       IN
        /\ seq' = [seq EXCEPT ![m] = s.sequence_id]
        /\ message_id' = s.message_id
        /\ prod' = [prod EXCEPT ![m] = p]
        /\ refs' = rc.refs
        /\ closes' = rc.closes
    /\ st' = [st EXCEPT ![m] = "sending"]
    /\ UNCHANGED <<topic, result, seen, inbound, closed, engineVars, attempts,
                   src, att, ch, rawIds, dropped>>

\* Lines 148-150: the pending handle resolved with the creation error; it is
\* delivered to the caller's resolver first.
ContFail(m) ==
    /\ st[m] \in {"chained", "waiting"}
    /\ InValue(src[m]) = "err"
    /\ LET h == src[m] IN
        /\ attempts' = AttemptsAfterTake(h)
        /\ ch' = ChAfterTake(h)
        /\ engineReg' = IF h.kind = "cont" THEN engineReg \ {h.id} ELSE engineReg
    /\ result' = ResolverSend(result, m, "create_err")
    /\ st' = [st EXCEPT ![m] = "failing"]
    /\ UNCHANGED <<topic, seen, inbound, closed, pc, notified, cur,
                   resolved_topics, producers, new_producers, src, att,
                   sessionVars, prod, seq, rawIds, dropped>>

\* A continuation that gives up when the caller's receiver is gone.
ContForwardErrUnlessDropped(m) ==
    /\ st[m] = "failing"
    /\ ch' = IF m \in dropped THEN ch ELSE TxSend(ch, m, "err")
    /\ notified' = IF ch[m] = "empty" /\ m \notin dropped THEN TxNotify(m) ELSE notified
    /\ st' = [st EXCEPT ![m] = "done"]
    /\ UNCHANGED <<topic, result, seen, inbound, closed, pc, cur,
                   resolved_topics, producers, new_producers, engineReg,
                   attempts, src, att, sessionVars, prod, seq, rawIds, dropped>>
\* Lines 151-152: then the failure is published on the forwarding channel.
ContForwardErr(m) ==
    /\ st[m] = "failing"
    /\ ch' = TxSend(ch, m, "err")
    /\ notified' = IF ch[m] = "empty" THEN TxNotify(m) ELSE notified
    /\ st' = [st EXCEPT ![m] = "done"]
    /\ UNCHANGED <<topic, result, seen, inbound, closed, pc, cur,
                   resolved_topics, producers, new_producers, engineReg,
                   attempts, src, att, sessionVars, prod, seq, rawIds, dropped>>

\* A send task that issues the RPC again when it failed.
SendDoneRetries(m, ok) ==
    /\ st[m] = "sending"
    /\ IF ok
       THEN /\ result' = ResolverSend(result, m, "receipt")
            /\ st' = [st EXCEPT ![m] = "done"]
            /\ UNCHANGED <<message_id, seq>>
       ELSE LET s == send_message(message_id, prod[m]) IN
            /\ seq' = [seq EXCEPT ![m] = s.sequence_id]
            /\ message_id' = s.message_id
            /\ UNCHANGED <<result, st>>
    /\ UNCHANGED <<topic, seen, inbound, closed, engineVars, attempts, src,
                   att, ch, refs, closes, prod, rawIds, dropped>>
\* Lines 127 and 144: the send RPC completes and its outcome (receipt or
\* error) is delivered to the caller's resolver.
SendDone(m, ok) ==
    /\ st[m] = "sending"
    /\ result' = ResolverSend(result, m, IF ok THEN "receipt" ELSE "send_err")
    /\ st' = [st EXCEPT ![m] = "done"]
    /\ UNCHANGED <<topic, seen, inbound, closed, engineVars, attempts, src,
                   att, ch, sessionVars, prod, seq, rawIds, dropped>>

\* The application calls send_raw on the Producer it holds directly.
SendRaw ==
    /\ Len(rawIds) < MaxRaw
    /\ LET s == send_raw(message_id, Direct) IN
        /\ rawIds' = Append(rawIds, s.sequence_id)
        /\ message_id' = s.message_id
    /\ UNCHANGED <<topic, st, result, seen, inbound, closed, engineVars,
                   attempts, src, att, ch, refs, closes, prod, seq, dropped>>

\* The caller discards the future returned by send before it resolved: the
\* receiver of the request's result channel (lines 77-85) is dropped.
DropReceiver(m) ==
    /\ st[m] # "new"
    /\ result[m] = "none"
    /\ m \notin dropped
    /\ dropped' = dropped \cup {m}
    /\ UNCHANGED <<topic, st, result, seen, inbound, closed, engineVars,
                   attempts, src, att, ch, sessionVars, prod, seq, rawIds>>

(***************************************************************************)
(* Specifications.                                                         *)
(***************************************************************************)

EngineStep ==
    \/ EnginePoll
    \/ AdvancePending
    \/ DispatchReady
    \/ DispatchPending
    \/ ParkOnEmpty
    \/ Terminate

TaskStep(m) ==
    \/ ContPark(m)
    \/ ContForwardOk(m)
    \/ ContSend(m)
    \/ ContFail(m)
    \/ ContForwardErr(m)

Next ==
    \/ \E t \in Topics : Send(t)
    \/ DropFacade
    \/ EngineStep
    \/ \E a \in Sessions, ok \in BOOLEAN : LookupDone(a, ok)
    \/ \E a \in Sessions, ok \in BOOLEAN : CreateDone(a, ok)
    \/ \E m \in Msgs : TaskStep(m)
    \/ \E m \in Msgs, ok \in BOOLEAN : SendDone(m, ok)

\* The facade, the engine and its tasks.
Spec == Init /\ [][Next]_vars

\* The same, with the application also sending on its own Producer.
DirectNext ==
    \/ Next
    \/ SendRaw

DirectSpec == Init /\ [][DirectNext]_vars

\* The facade, the engine and its tasks, with callers that may discard the
\* future of a send before it resolves.
CancelNext ==
    \/ Next
    \/ \E m \in Msgs : DropReceiver(m)

CancelSpec == Init /\ [][CancelNext]_vars

\* The facade, the engine and its tasks, with callers whose messages may fail
\* to serialize.
SerializeNext ==
    \/ Next
    \/ \E t \in Topics : SendUnserializable(t)

SerializeSpec == Init /\ [][SerializeNext]_vars

\* The facade, the engine and its tasks on an executor that may shut down
\* while callers still hold the facade.
ShutdownNext ==
    \/ Next
    \/ Shutdown
    \/ \E t \in Topics : SendRefused(t)

ShutdownSpec == Init /\ [][ShutdownNext]_vars

\* The engine some time into its life: two earlier sends to the smallest topic
\* have been served (the first created the session, the second woke the
\* engine, which registered it), their tasks have ended, and the engine is
\* parked on the empty queue.  The messages of the run come after those two.
WarmInit ==
    /\ topic = [m \in Msgs |-> 0]
    /\ st = [m \in Msgs |-> "new"]
    /\ result = [m \in Msgs |-> "none"]
    /\ seen = [m \in Msgs |-> {}]
    /\ inbound = << >>
    /\ closed = FALSE
    /\ pc = "idle"
    /\ notified = FALSE
    /\ cur = 0
    /\ resolved_topics = {}
    /\ producers = [t \in Topics |-> IF t = Min(Topics) THEN 1 ELSE 0]
    /\ new_producers = [t \in Topics |-> 0]
    /\ engineReg = {}
    /\ attempts = <<[topic |-> Min(Topics), st |-> "ok", taken |-> TRUE,
                     observed |-> TRUE]>>
    /\ src = [m \in Msgs |-> NoHandle]
    /\ att = [m \in Msgs |-> 0]
    /\ ch = [m \in Msgs |-> "empty"]
    /\ message_id = [p \in Sessions \cup {Direct} |-> IF p = 1 THEN 2 ELSE 0]
    /\ refs = [p \in Sessions |-> IF p = 1 THEN 1 ELSE 0]
    /\ closes = [p \in Sessions |-> 0]
    /\ prod = [m \in Msgs |-> 0]
    /\ seq = [m \in Msgs |-> -1]
    /\ rawIds = << >>
    /\ dropped = {}

WarmSpec == WarmInit /\ [][Next]_vars

\* The executor polls every woken task and every RPC completes; callers are
\* free to stop sending and to keep the facade for ever.
Fairness ==
    /\ WF_vars(EngineStep)
    /\ \A a \in Sessions : WF_vars(\E ok \in BOOLEAN : LookupDone(a, ok))
    /\ \A a \in Sessions : WF_vars(\E ok \in BOOLEAN : CreateDone(a, ok))
    /\ \A m \in Msgs : WF_vars(TaskStep(m))
    /\ \A m \in Msgs : WF_vars(\E ok \in BOOLEAN : SendDone(m, ok))

FairSpec == Init /\ [][Next]_vars /\ Fairness

(***************************************************************************)
(* Properties.                                                             *)
(***************************************************************************)

TypeOK ==
    /\ topic \in [Msgs -> Topics \cup {0}]
    /\ st \in [Msgs -> {"new", "queued", "chained", "waiting", "forwarded",
                        "failing", "sending", "done", "rejected", "refused",
                        "aborted"}]
    /\ result \in [Msgs -> {"none", "receipt", "send_err", "create_err",
                            "ser_err", "canceled"}]
    /\ pc \in {"idle", "phase1", "loop", "done", "gone"}
    /\ ch \in [Msgs -> {"empty", "ok", "err", "closed"}]
    /\ \A a \in DOMAIN attempts :
            attempts[a].st \in {"lookup", "create", "ok", "err", "aborted"}
    /\ \A p \in Sessions : refs[p] >= 0
    /\ \A m \in Msgs : att[m] \in 0..Len(attempts)
    /\ pc # "phase1" => \A t \in Topics : new_producers[t] # 0 => ch[new_producers[t]] # "closed"

\* Creation attempts for topic t whose outcome the engine has not observed.
OpenAttempts(t) ==
    {a \in DOMAIN attempts : attempts[a].topic = t /\ ~attempts[a].observed}

\* C1: while topic t has no session and its current creation attempt has not
\* been observed as resolved by the engine, exactly one creation attempt is
\* open for t: a message dequeued for t with no attempt open starts one, and
\* a message dequeued while one is open chains onto it (through the pending
\* handle registered for t) and starts none.
C1_OneCreationPerCycle ==
    /\ [](\A t \in Topics : Cardinality(OpenAttempts(t)) <= 1)
    /\ [][\A m \in Msgs :
            (st[m] = "queued" /\ st'[m] = "chained") =>
                LET open == OpenAttempts(topic[m]) IN
                IF open # {}
                THEN /\ attempts' = attempts
                     /\ att'[m] \in open
                     /\ src'[m] = ContHandle(new_producers[topic[m]])
                ELSE /\ Len(attempts') = Len(attempts) + 1
                     /\ attempts'[Len(attempts')].topic = topic[m]
                     /\ att'[m] = Len(attempts')
                     /\ src'[m] = CreateHandle(att'[m])]_vars

\* Two messages for one topic are chained on the only creation attempt made.
C1_Witness ==
    \E m1, m2 \in Msgs :
        /\ m1 # m2
        /\ att[m1] # 0
        /\ att[m1] = att[m2]
        /\ Len(attempts) = 1

\* C2: a send to topic t issued by a caller that has already received the
\* creation failure of an earlier send to t is not served by that failed
\* attempt: when it is chained on a creation attempt, it is a newer one.
C2_FailureNotCached ==
    \A m1, m2 \in Msgs :
        (m1 \in seen[m2] /\ result[m1] = "create_err" /\ att[m2] # 0)
            => att[m2] # att[m1]

\* The condition of no task and no RPC having a step left to take.
TasksQuiescent ==
    /\ \A a \in DOMAIN attempts : attempts[a].st \in {"ok", "err"}
    /\ \A m \in Msgs : st[m] \notin {"chained", "waiting", "forwarded",
                                     "failing", "sending"}
                       \/ ~ENABLED (TaskStep(m) \/ \E ok \in BOOLEAN : SendDone(m, ok))

\* C3: the callers chained on one creation attempt share its outcome.  If it
\* failed, none of them is sent and each one's result is the creation error
\* (or is still to come); if it succeeded, none gets the creation error and
\* each one is sent on the session of that attempt; and once every task has
\* run as far as it can, none of them is left without its outcome.
C3_SharedOutcome ==
    \A m \in Msgs :
        att[m] # 0 =>
            LET a == att[m] IN
            /\ attempts[a].st = "err" =>
                /\ result[m] \in {"none", "create_err"}
                /\ seq[m] = -1
                /\ TasksQuiescent => result[m] = "create_err"
            /\ attempts[a].st = "ok" =>
                /\ result[m] # "create_err"
                /\ seq[m] # -1 => prod[m] = a
                /\ TasksQuiescent => (prod[m] = a /\ result[m] \in {"receipt", "send_err"})
            /\ attempts[a].st \in {"lookup", "create"} =>
                (result[m] = "none" /\ seq[m] = -1)

\* Two callers chained on one attempt have both received its creation error.
C3_Witness ==
    \E m1, m2 \in Msgs :
        /\ m1 # m2
        /\ att[m1] # 0
        /\ att[m1] = att[m2]
        /\ result[m1] = "create_err"
        /\ result[m2] = "create_err"


\* C4: under fair scheduling of the engine and of the spawned tasks, and with
\* every RPC completing, every request pushed onto the inbound queue is
\* eventually resolved with a receipt or an error, whether or not the facade
\* is dropped while the request is queued or chained on a pending creation.
C4_EverySendResolves ==
    \A m \in Msgs : (st[m] = "queued") ~> (result[m] # "none")

\* The engine has terminated without ever observing the creation attempt a
\* message was chained on, and that message has its receipt all the same.
C4_Witness ==
    \E m \in Msgs :
        /\ pc = "done"
        /\ att[m] # 0
        /\ ~attempts[att[m]].observed
        /\ result[m] = "receipt"

\* C5: whenever the engine is not in the middle of advancing its pending
\* creations (so before and after each poll, and all through the drain
\* loop), no topic has an entry in both producers and new_producers.
C5_MapsDisjoint ==
    pc # "phase1" =>
        \A t \in Topics : ~(producers[t] # 0 /\ new_producers[t] # 0)

\* The engine is parked with a session registered for one topic and a pending
\* handle for another, after a creation attempt has failed.
C5_Witness ==
    /\ pc = "idle"
    /\ \E t, u \in Topics : producers[t] # 0 /\ new_producers[u] # 0
    /\ \E a \in DOMAIN attempts : attempts[a].st = "err"

\* C6: when a caller sends to topic t after receiving the receipt of its
\* earlier send to t, the later message meets no creation failure and is
\* sent on the same session with a strictly larger sequence id.
C6_SequentialSendsOrdered ==
    \A m1, m2 \in Msgs :
        (m1 \in seen[m2] /\ result[m1] = "receipt") =>
            /\ result[m2] # "create_err"
            /\ seq[m2] # -1 => (prod[m2] = prod[m1] /\ seq[m2] > seq[m1])

\* A second send issued after the first one's receipt has been sent.
C6_Witness ==
    \E m1, m2 \in Msgs :
        m1 \in seen[m2] /\ result[m1] = "receipt" /\ seq[m2] = 1

\* The messages whose send RPC session p carried.
SentOn(p) == {m \in Msgs : prod[m] = p}

\* C7: within one session the sequence ids drawn are 0, 1, ..., N-1, each
\* drawn once, and the counter stands at N: for the sessions the engine
\* sends on (send_message, from the engine task and from continuations) and
\* for a Producer the application sends on directly (send_raw).
C7_SequenceIdsDistinct ==
    /\ \A p \in Sessions :
        /\ {seq[m] : m \in SentOn(p)} = 0..(Cardinality(SentOn(p)) - 1)
        /\ \A m1, m2 \in SentOn(p) : seq[m1] = seq[m2] => m1 = m2
        /\ message_id[p] = Cardinality(SentOn(p))
    /\ \A i \in DOMAIN rawIds : rawIds[i] = i - 1
    /\ message_id[Direct] = Len(rawIds)

\* One engine session has carried two messages and the direct Producer two.
C7_Witness ==
    /\ \E p \in Sessions : Cardinality(SentOn(p)) = 2
    /\ Len(rawIds) = 2

\* C8: a message dequeued for a topic that has a session in producers causes
\* one send RPC on that session and nothing else: no creation attempt is
\* started (no lookup, no create_producer), both maps stay as they are and
\* no other message is sent.
C8_ReadyDispatchSendsOnly ==
    [][(/\ pc = "loop"
        /\ inbound # << >>
        /\ producers[topic[Head(inbound)]] # 0
        /\ inbound' = Tail(inbound))
       => LET m == Head(inbound) IN
          /\ attempts' = attempts
          /\ producers' = producers
          /\ new_producers' = new_producers
          /\ prod'[m] = producers[topic[m]]
          /\ seq'[m] = message_id[producers[topic[m]]]
          /\ \A k \in Msgs \ {m} : seq'[k] = seq[k] /\ prod'[k] = prod[k]
          /\ closes' = closes]_vars

\* A message has been sent without ever being chained on a creation attempt.
C8_Witness ==
    \E m \in Msgs : att[m] = 0 /\ prod[m] # 0 /\ seq[m] # -1

\* The owners of session p: the attempt's channel while the session sits in
\* it, each forwarding channel holding it, each continuation between
\* receiving it and having sent on it, and the engine's map entry.
Holders(p) ==
    (IF attempts[p].st = "ok" /\ ~attempts[p].taken THEN 1 ELSE 0)
    + Cardinality({m \in Msgs : att[m] = p /\ ch[m] = "ok"})
    + Cardinality({m \in Msgs : att[m] = p /\ st[m] = "forwarded"})
    + (IF producers[attempts[p].topic] = p THEN 1 ELSE 0)

\* C9: a session that was never instantiated gets no close_producer RPC; an
\* instantiated one gets none while it has an owner and exactly one once it
\* has none, and its reference count is the number of its owners.
C9_CloseExactlyOnce ==
    \A p \in Sessions :
        IF p \in DOMAIN attempts /\ attempts[p].st = "ok"
        THEN /\ refs[p] = Holders(p)
             /\ closes[p] = IF Holders(p) = 0 THEN 1 ELSE 0
        ELSE refs[p] = 0 /\ closes[p] = 0

\* The engine's map entry was the last owner: dropping the engine closed it.
C9_Witness ==
    \E p \in Sessions :
        /\ closes[p] = 1
        /\ pc = "done"
        /\ attempts[p].observed


\* The two topics of the independence property: nothing is assumed about the
\* RPCs of TopicA, which may never complete.
TopicA == Min(Topics)
TopicB == Max(Topics)

\* Fair scheduling of the engine and of the tasks working for TopicB only.
FairnessB ==
    /\ WF_vars(EngineStep)
    /\ \A a \in Sessions :
        WF_vars(a \in DOMAIN attempts /\ attempts[a].topic = TopicB
                /\ \E ok \in BOOLEAN : LookupDone(a, ok))
    /\ \A a \in Sessions :
        WF_vars(a \in DOMAIN attempts /\ attempts[a].topic = TopicB
                /\ \E ok \in BOOLEAN : CreateDone(a, ok))
    /\ \A m \in Msgs : WF_vars(topic[m] = TopicB /\ TaskStep(m))
    /\ \A m \in Msgs :
        WF_vars(topic[m] = TopicB /\ \E ok \in BOOLEAN : SendDone(m, ok))

FairSpecB == Init /\ [][Next]_vars /\ FairnessB

\* C10: whatever happens to TopicA (its creation or its sends may fail or
\* never complete), every request for TopicB is eventually resolved; and the
\* entries of a topic in producers and new_producers change only in a step
\* in which the engine handles that topic's own handle or message, or drops
\* its maps on termination.
C10_TopicsIndependent ==
    /\ \A m \in Msgs :
        (st[m] = "queued" /\ topic[m] = TopicB) ~> (result[m] # "none")
    /\ [][\A t \in Topics :
            (producers'[t] # producers[t] \/ new_producers'[t] # new_producers[t])
            => \/ pc = "phase1" /\ (cur = t \/ t \in resolved_topics)
               \/ pc = "loop" /\ inbound # << >> /\ topic[Head(inbound)] = t
               \/ pc' = "done"]_vars

\* A request for TopicB sent after one for TopicA has its receipt while the
\* creation for TopicA is still waiting for its lookup.
C10_Witness ==
    \E mA, mB \in Msgs :
        /\ mA < mB
        /\ topic[mA] = TopicA
        /\ topic[mB] = TopicB
        /\ att[mA] # 0
        /\ attempts[att[mA]].st = "lookup"
        /\ result[mB] = "receipt"


\* C11: the engine terminates only from the drain loop with the queue closed
\* and empty, so every pushed request has been dequeued by then and no
\* creation or send failure ends it; and once the queue is closed it does
\* terminate (under fair scheduling).
C11_TerminatesWhenDrained ==
    /\ [](pc = "done" =>
            (closed /\ inbound = << >> /\ \A m \in Msgs : st[m] # "queued"))
    /\ [][(pc # "done" /\ pc' = "done") =>
            (pc = "loop" /\ closed /\ inbound = << >>)]_vars
    /\ closed ~> (pc = "done")

\* The engine has terminated after a creation failure and a send failure.
C11_Witness ==
    /\ pc = "done"
    /\ \E m \in Msgs : result[m] = "create_err"
    /\ \E m \in Msgs : result[m] = "send_err"


\* C12: a caller that discarded its receiver changes nothing for anyone else.
\* Its continuation never ends before it has published the outcome on its
\* forwarding channel; once every task has run as far as it can, it has
\* finished, its message was sent on the session exactly when the creation
\* succeeded, and every caller chained on its forwarding channel that still
\* listens has its result; a message of such a caller dispatched on a
\* registered session is sent too; and the engine ends only on a closed queue.
C12_DroppedStillCompletes ==
    /\ pc = "done" => closed
    /\ \A m \in dropped :
        /\ (st[m] = "done" /\ att[m] # 0) => ch[m] # "empty"
        /\ (st[m] = "done" /\ att[m] = 0) => prod[m] # 0
        /\ (TasksQuiescent /\ att[m] # 0) =>
                /\ st[m] = "done"
                /\ attempts[att[m]].st = "ok" <=> prod[m] = att[m]
                /\ attempts[att[m]].st = "err" <=> prod[m] = 0
        /\ TasksQuiescent =>
                \A k \in Msgs \ dropped :
                    src[k] = ContHandle(m) => result[k] # "none"
C12_Witness ==
    \E m \in dropped, k \in Msgs \ dropped :
        /\ src[k] = ContHandle(m)
        /\ st[m] = "done" /\ result[m] = "none"
        /\ result[k] = "create_err"
        /\ pc = "idle"

\* The messages the engine has dequeued and the RPCs issued so far.
EngineSide == <<inbound, pc, notified, producers, new_producers, attempts,
                src, att, ch, message_id, refs, closes, prod, seq>>

\* C13: a send whose serialization fails is answered at once with the
\* serialization error and leaves the inbound queue, the engine (its maps
\* included, and whether it has been woken), the creation attempts and the
\* sequence counters as they were; the request is never dequeued, chained on
\* a creation attempt or sent afterwards.
C13_SerializationFailureStaysLocal ==
    /\ [][\A m \in Msgs :
            (st[m] = "new" /\ st'[m] = "rejected") =>
                /\ result'[m] = "ser_err"
                /\ UNCHANGED EngineSide]_vars
    /\ [](\A m \in Msgs :
            st[m] = "rejected" =>
                /\ result[m] = "ser_err"
                /\ \A i \in DOMAIN inbound : inbound[i] # m
                /\ att[m] = 0 /\ src[m] = NoHandle
                /\ prod[m] = 0 /\ seq[m] = -1)
C13_Witness ==
    \E m, k \in Msgs :
        /\ m < k /\ topic[m] = topic[k]
        /\ st[m] = "rejected"
        /\ result[k] = "receipt"
        /\ Len(attempts) = 1
        /\ pc = "done"

\* C14: a send whose push was refused, and a send whose result channel was
\* dropped without a value, yield the engine-unavailable error; once the
\* engine is gone no send that was called is left pending, and a refused
\* request is never queued or sent.
C14_EngineGoneIsReported ==
    \A m \in Msgs :
        /\ (st[m] = "refused" \/ result[m] = "canceled") =>
                FutureResult(m) = "unavailable"
        /\ (pc = "gone" /\ st[m] # "new") => FutureResult(m) # "pending"
        /\ st[m] = "refused" =>
                /\ \A i \in DOMAIN inbound : inbound[i] # m
                /\ prod[m] = 0 /\ att[m] = 0
        /\ st[m] = "aborted" => result[m] = "canceled"
C14_Witness ==
    /\ pc = "gone"
    /\ \E m \in Msgs : st[m] = "refused"
    /\ \E m \in Msgs : st[m] = "aborted" /\ result[m] = "canceled" /\ att[m] # 0

\* The work items the engine has taken off the inbound queue.
Dequeued == {m \in Msgs : st[m] \notin {"new", "queued"}}

\* C15: a dequeued work item is never put back on the queue or chained onto
\* another creation attempt; the send RPC issued for it and the value
\* delivered on its result channel never change once they exist; a work item
\* whose creation failed has no send RPC, one that got a receipt or a send
\* error has one, and once every task has run as far as it can each work item
\* with a registered session or a successful creation has been sent; the
\* engine starts at most one creation attempt per work item.
C15_ConsumedExactlyOnce ==
    /\ [][\A m \in Msgs :
            /\ m \in Dequeued =>
                    /\ st'[m] # "queued"
                    /\ \A i \in DOMAIN inbound' : inbound'[i] # m
                    /\ att'[m] = att[m]
            /\ seq[m] # -1 => (seq'[m] = seq[m] /\ prod'[m] = prod[m])
            /\ result[m] # "none" => result'[m] = result[m]
            /\ st[m] = "done" => st'[m] = "done"]_vars
    /\ [](\A m \in Msgs :
            /\ result[m] = "create_err" => (seq[m] = -1 /\ prod[m] = 0)
            /\ result[m] \in {"receipt", "send_err"} => (seq[m] # -1 /\ prod[m] # 0)
            /\ (TasksQuiescent /\ m \in Dequeued) =>
                    /\ result[m] # "none"
                    /\ (att[m] = 0 \/ attempts[att[m]].st = "ok") <=> prod[m] # 0)
    /\ [](Len(attempts) <= Cardinality(Dequeued))
C15_Witness ==
    /\ TasksQuiescent
    /\ pc = "idle" /\ inbound = << >>
    /\ Len(attempts) = 2
    /\ \E m \in Msgs : result[m] = "send_err" /\ seq[m] = 0
    /\ \E m \in Msgs : result[m] = "create_err" /\ seq[m] = -1

\* The creation attempt behind the pending handle registered for topic t has
\* resolved (with a session or with a failure).
AttemptResolved(t) ==
    /\ new_producers[t] # 0
    /\ att[new_producers[t]] # 0
    /\ attempts[att[new_producers[t]]].st \in {"ok", "err"}

\* C16: once the creation attempt for topic t has resolved, t eventually
\* leaves new_producers, whether or not any further message arrives.
C16_PendingEventuallyLeaves ==
    \A t \in Topics : AttemptResolved(t) ~> (new_producers[t] = 0)

\* A step of the engine inside lines 104-119.
AdvanceStep == pc = "phase1" /\ (cur' # cur \/ pc' # pc)

\* C17: polling the pending handles never waits, and it changes the maps only
\* for handles found resolved.  The step that polls topic cur's handle
\* inserts the session under the session's topic when the handle holds one
\* and leaves producers as it is otherwise; new_producers is changed only
\* after the last handle, and then exactly the topics recorded as resolved
\* are removed; the topics recorded are those whose handle was found
\* resolved, and every handle found unresolved stays registered.
C17_AdvancePendingFrame ==
    /\ [](pc = "phase1" => ENABLED AdvancePending)
    /\ [](pc = "phase1" =>
            /\ cur \in PendingTopics
            /\ \A u \in resolved_topics :
                    u < cur /\ u \in PendingTopics /\ ch[new_producers[u]] = "closed"
            /\ \A u \in PendingTopics \ resolved_topics :
                    u < cur => new_producers[u] \in engineReg
                                \/ ch[new_producers[u]] # "closed")
    /\ [][IF AdvanceStep
          THEN LET k == new_producers[cur]
                   v == ch[k]
                   resolved == IF v = "empty" THEN resolved_topics
                               ELSE resolved_topics \cup {cur}
               IN /\ v = "ok" =>
                        producers' = [producers EXCEPT ![SessionTopic(att[k])] = att[k]]
                  /\ v # "ok" => producers' = producers
                  /\ pc' = "phase1" => new_producers' = new_producers
                  /\ pc' # "phase1" =>
                        /\ pc' = "loop"
                        /\ \A u \in Topics :
                              new_producers'[u] =
                                  IF u \in resolved THEN 0 ELSE new_producers[u]
          ELSE pc = "phase1" => UNCHANGED <<producers, new_producers>>]_vars
C17_Witness ==
    /\ pc = "loop"
    /\ \E t, u \in Topics :
        /\ t # u
        /\ producers[t] # 0 /\ attempts[producers[t]].observed
        /\ new_producers[u] # 0 /\ ch[new_producers[u]] = "empty"
        /\ new_producers[t] = 0

\* The creation attempts for topic t that produced a session.
Succeeded(t) ==
    {a \in DOMAIN attempts : attempts[a].topic = t /\ attempts[a].st = "ok"}

\* C18: until the engine terminates, a topic's entry in producers never
\* changes once it is set; it is a session created for that topic; at most
\* one creation attempt per topic succeeds; and all send RPCs for one topic
\* are issued on one session.
C18_ProducersOnlyGrows ==
    /\ [][\A t \in Topics :
            (producers[t] # 0 /\ pc' # "done") => producers'[t] = producers[t]]_vars
    /\ [](\A t \in Topics :
            /\ Cardinality(Succeeded(t)) <= 1
            /\ producers[t] # 0 => producers[t] \in Succeeded(t))
    /\ [](\A m1, m2 \in Msgs :
            (topic[m1] = topic[m2] /\ prod[m1] # 0 /\ prod[m2] # 0)
                => prod[m1] = prod[m2])
C18_Witness ==
    \E t \in Topics :
        /\ Len(attempts) = 2
        /\ attempts[1].topic = t /\ attempts[1].st = "err"
        /\ producers[t] = 2
        /\ \E m \in Msgs : prod[m] = 2 /\ result[m] = "receipt"

\* C19: the step that issues the send RPC for a message finds no
\* close_producer issued for the session it sends on; a continuation that is
\* about to send, and the engine for every registered session, holds a
\* reference to a session that has not been closed, whether or not the
\* engine has terminated.
C19_NoSendAfterClose ==
    /\ [][\A m \in Msgs :
            seq'[m] # seq[m] => (prod'[m] # 0 /\ closes[prod'[m]] = 0)]_vars
    /\ [](\A m \in Msgs :
            st[m] = "forwarded" => (refs[att[m]] >= 1 /\ closes[att[m]] = 0))
    /\ [](\A t \in Topics :
            producers[t] # 0 => (refs[producers[t]] >= 1 /\ closes[producers[t]] = 0))
C19_Witness ==
    /\ pc = "done"
    /\ \E m1, m2 \in Msgs :
        /\ src[m2] = ContHandle(m1)
        /\ prod[m1] # 0 /\ prod[m2] = prod[m1]
        /\ ~attempts[prod[m1]].observed
        /\ closes[prod[m1]] = 1 /\ refs[prod[m1]] = 0

\* The engine takes the head of the inbound queue for a topic that has a
\* registered session.
ReadyDequeue ==
    /\ inbound # << >>
    /\ inbound' = Tail(inbound)
    /\ producers[topic[Head(inbound)]] # 0

\* C20: the step in which the engine dequeues a message for a topic with a
\* registered session draws the message's sequence id from that session's
\* counter; hence of two messages to one topic both dispatched that way, the
\* one dequeued first (the queue is FIFO, so the one sent first) has the
\* strictly smaller sequence id, whatever order the send tasks complete in.
C20_ReadyDispatchOrdered ==
    /\ [][ReadyDequeue =>
            LET m == Head(inbound) IN
                /\ seq'[m] = message_id[producers[topic[m]]]
                /\ message_id'[producers[topic[m]]] > seq'[m]]_vars
    /\ [](\A m1, m2 \in Msgs :
            (/\ m1 < m2 /\ topic[m1] = topic[m2]
             /\ att[m1] = 0 /\ att[m2] = 0
             /\ prod[m1] # 0 /\ prod[m2] # 0) => seq[m1] < seq[m2])
C20_Witness ==
    \E m1, m2 \in Msgs :
        /\ m1 < m2 /\ topic[m1] = topic[m2]
        /\ att[m1] = 0 /\ att[m2] = 0
        /\ seq[m1] = 2 /\ seq[m2] = 3
        /\ result[m2] = "receipt" /\ st[m1] = "sending"

====
